---------------------------- MODULE Spec2Model ----------------------------
(***************************************************************************)
(* Premium-entitlement core of the Digital Life Lessons server             *)
(* (src/index.js, the server that is registered first: lines 1-1225).      *)
(*                                                                         *)
(* The state is the document store (users and payments collections, kept   *)
(* as sequences in insertion order, the order findOne / updateOne /        *)
(* deleteOne match in), the payment provider's checkout sessions, the      *)
(* readiness flag set by run(), the handlers that are suspended at an      *)
(* await, and the last response an entitlement endpoint (/webhook,         *)
(* /payments/confirm, /create-checkout-session) sent.                      *)
(*                                                                         *)
(* Every store write is a step of its own and a handler is suspended       *)
(* between two of them.  The synchronous prefix of a handler and its first *)
(* awaited call are one step, taken at the moment that call is served:     *)
(* the prefix reads only the request and dbReady, which never goes back to *)
(* false, so nothing another handler does in between can be told apart     *)
(* from the request arriving later.                                        *)
(*                                                                         *)
(* Left out of the documents: name, photoURL and createdAt of a user (no   *)
(* handler reads them back or branches on them).                           *)
(***************************************************************************)
EXTENDS Integers, Sequences, FiniteSets, Bags

(* ------------------------------ bounds -------------------------------- *)
MaxReq == 2          \* handlers suspended at an await at the same time
MaxPayments == 2     \* documents the payments collection may grow to
MaxClock == 1        \* the wall clock runs 0..MaxClock
MaxRetries == 2      \* retries of one session after a failed apply
MaxUsers == 3        \* user documents in the first-login specification
MaxLikes == 3        \* likesCount stays within -MaxLikes..MaxLikes
MaxFavorites == 2    \* documents the favorites collection may grow to
MaxComments == 1     \* documents the comments collection may grow to
MaxReports == 1      \* documents the lessonReports collection may grow to

Uids == {"u1", "u2"}
SessionSeq == <<"s1", "s2">>   \* the ids the provider hands out, in order
SessionIds == {SessionSeq[i] : i \in 1..Len(SessionSeq)}
Roles == {"user", "admin"}
EventTypes == {"checkout.session.completed", "payment_intent.succeeded"}
None == "none"

(* src/index.js:696  unit_amount: 1500 * 100, one line item, quantity 1 *)
AmountTotal == 150000

VARIABLES
  dbReady,             \* let dbReady = false
  conn,                \* run(): "connecting", "connected" or "failed"
  handles,             \* the six collection handles are assigned
  usersCollection,     \* sequence of user documents
  paymentsCollection,  \* sequence of payment documents
  sessions,            \* the provider's checkout sessions, by id
  reqs,                \* bag of the suspended handlers
  resp,                \* the last response sent
  now,                 \* wall clock read by new Date()
  lessonsCollection,        \* sequence of lesson documents
  favoritesCollection,      \* sequence of favorite documents
  lessonReportsCollection,  \* sequence of report documents
  commentsCollection        \* sequence of comment documents

vars == <<dbReady, conn, handles, usersCollection, paymentsCollection,
          sessions, reqs, resp, now, lessonsCollection,
          favoritesCollection, lessonReportsCollection, commentsCollection>>

store == <<usersCollection, paymentsCollection>>
content == <<lessonsCollection, favoritesCollection,
             lessonReportsCollection, commentsCollection>>

(* --------------------------- documents -------------------------------- *)
NoSession == [status |-> "absent", uid |-> None, email |-> None,
              customer_email |-> None]
NoResp == [kind |-> "none", status |-> 0, body |-> "none", uid |-> None,
           sig |-> "n/a"]

(* A response: res.status(status), and the body: the text of a {message}   *)
(* body, or "received", "ok", "url" for {received: true}, {ok: true,       *)
(* isPremium: true}, {url}, or "Webhook Error" for the plain text of the   *)
(* signature failure.  uid is the user {ok: true, isPremium: true} speaks   *)
(* of; sig tells whether the body of a webhook request carried the         *)
(* provider's signature.                                                   *)
Resp(kind, status, body, uid, sig) ==
  [kind |-> kind, status |-> status, body |-> body, uid |-> uid, sig |-> sig]

(* index of the first document of a collection that matches, 0 if none *)
FirstUser(users, uid) ==
  IF \E i \in 1..Len(users) : users[i].uid = uid
  THEN CHOOSE i \in 1..Len(users) :
         /\ users[i].uid = uid
         /\ \A j \in 1..(i-1) : users[j].uid # uid
  ELSE 0

FirstPayment(payments, sid) ==
  IF \E i \in 1..Len(payments) : payments[i].stripeSessionId = sid
  THEN CHOOSE i \in 1..Len(payments) :
         /\ payments[i].stripeSessionId = sid
         /\ \A j \in 1..(i-1) : payments[j].stripeSessionId # sid
  ELSE 0

RemoveAt(s, i) == [j \in 1..(Len(s)-1) |-> IF j < i THEN s[j] ELSE s[j+1]]

(* ------------------------ store operations ---------------------------- *)
(* usersCollection.updateOne({uid}, {$set: {uid, email, ..., updatedAt},   *)
(*   $setOnInsert: {role: "user", isPremium: false, ...}}, {upsert: true}) *)
UpsertUserResetsPremium(users, uid, email, t) ==
  LET i == FirstUser(users, uid) IN
  IF i = 0
  THEN Append(users, [uid |-> uid, email |-> email, role |-> "user",
                      isPremium |-> FALSE, updatedAt |-> t])
  ELSE [users EXCEPT ![i].email = email, ![i].isPremium = FALSE,
                     ![i].updatedAt = t]

UpsertUser(users, uid, email, t) ==
  LET i == FirstUser(users, uid) IN
  IF i = 0
  THEN Append(users, [uid |-> uid, email |-> email, role |-> "user",
                      isPremium |-> FALSE, updatedAt |-> t])
  ELSE [users EXCEPT ![i].uid = uid, ![i].email = email, ![i].updatedAt = t]

(* usersCollection.updateOne({uid}, {$set: {isPremium: true, updatedAt}}) *)
SetPremiumMatchesNothing(users, uid, t) == users

SetPremium(users, uid, t) ==
  LET i == FirstUser(users, uid) IN
  IF i = 0 THEN users
  ELSE [users EXCEPT ![i].isPremium = TRUE, ![i].updatedAt = t]

(* usersCollection.updateOne({uid}, {$set: {role, updatedAt}}) *)
SetRole(users, uid, role, t) ==
  LET i == FirstUser(users, uid) IN
  IF i = 0 THEN users
  ELSE [users EXCEPT ![i].role = role, ![i].updatedAt = t]

(* usersCollection.deleteOne({uid}) *)
DeleteUser(users, uid) ==
  LET i == FirstUser(users, uid) IN
  IF i = 0 THEN users ELSE RemoveAt(users, i)

(* session?.metadata?.email || session.customer_email *)
SessionEmail(sess) ==
  IF sess.email # None THEN sess.email ELSE sess.customer_email

(* session.payment_intent: set by the provider once the session is paid *)
PaymentIntent(sid, sess) == IF sess.status = "paid" THEN <<"pi", sid>> ELSE <<>>

(* the document both paths write to the payments collection *)
PaymentDoc(sid, sess, t) ==
  [uid |-> sess.uid, email |-> SessionEmail(sess), stripeSessionId |-> sid,
   stripePaymentIntentId |-> PaymentIntent(sid, sess),
   amount |-> AmountTotal, currency |-> "bdt", status |-> "paid",
   createdAt |-> t]

(* paymentsCollection.updateOne({stripeSessionId}, {$setOnInsert: doc},    *)
(*   {upsert: true}): a matched document is left as it is                  *)
UpsertPaymentAlwaysInserts(payments, doc) == Append(payments, doc)

UpsertPayment(payments, doc) ==
  IF FirstPayment(payments, doc.stripeSessionId) = 0
  THEN Append(payments, doc)
  ELSE payments

(* paymentsCollection.insertOne(doc), as the webhook does *)
InsertPaymentDropsOthers(payments, doc) == <<doc>>

InsertPayment(payments, doc) == Append(payments, doc)

(* ------------------------------ inputs -------------------------------- *)
(* the identity provider gives every uid one e-mail address *)
UserEmail(uid) == IF uid = "u1" THEN "e1" ELSE "e2"

(* req.body of POST /users/upsert *)
UpsertBodies ==
  { [uid |-> u, email |-> UserEmail(u)] : u \in Uids }
    \cup { [uid |-> None, email |-> "e1"], [uid |-> "u1", email |-> None] }

(* req.body of POST /create-checkout-session: the e-mail is the client's   *)
(* to choose, for u1 it differs from the account's                         *)
CheckoutBodies ==
  { [uid |-> u, email |-> "e2"] : u \in Uids }
    \cup { [uid |-> None, email |-> "e2"], [uid |-> "u1", email |-> None] }

(* req.body of PATCH /admin/users/role *)
RoleBodies ==
  { [uid |-> "u1", role |-> "admin"], [uid |-> "u1", role |-> "user"],
    [uid |-> "u1", role |-> "owner"], [uid |-> None, role |-> "admin"] }

(* req.body.sessionId of POST /payments/confirm *)
ConfirmIds == SessionIds \cup {None}

(* ids of checkout sessions made outside this server *)
ExternalIds == {"s2"}

(* ------------------------------ state --------------------------------- *)
(* The store and the provider outlive the process: it starts on a fresh    *)
(* deployment, or after a restart that finds a user whose checkout session *)
(* was paid while the server was down.                                     *)
FreshStart ==
  /\ usersCollection = <<>>
  /\ sessions = [s \in SessionIds |-> NoSession]

Restart ==
  /\ usersCollection = << [uid |-> "u1", email |-> "e1", role |-> "user",
                           isPremium |-> FALSE, updatedAt |-> 0] >>
  /\ sessions = [s \in SessionIds |->
                   IF s = SessionSeq[1]
                   THEN [status |-> "paid", uid |-> "u1", email |-> "e2",
                         customer_email |-> "e2"]
                   ELSE NoSession]

Init ==
  /\ dbReady = FALSE
  /\ conn = "connecting"
  /\ handles = FALSE
  /\ (FreshStart \/ Restart)
  /\ paymentsCollection = <<>>
  /\ reqs = EmptyBag
  /\ resp = NoResp
  /\ now = 0
  /\ lessonsCollection = << [id |-> "l1", likes |-> {}, likesCount |-> 0,
                             updatedAt |-> 0] >>
  /\ favoritesCollection = <<>>
  /\ lessonReportsCollection = <<>>
  /\ commentsCollection = <<>>

(* A suspended handler: kind, the await it is suspended at (pc), and its   *)
(* locals sid and session.  sig is the signature of the request it serves. *)
Suspended == BagToSet(reqs)
Applying(rq) == rq.kind \in {"webhook", "confirm"}

RECURSIVE Copies(_, _)
Copies(B, S) ==
  IF S = {} THEN 0
  ELSE LET x == CHOOSE y \in S : TRUE IN B[x] + Copies(B, S \ {x})

NumApplying == Copies(reqs, {x \in Suspended : Applying(x)})
NumCreating == Copies(reqs, {x \in Suspended : x.kind = "checkout"})
FreeSessionIds == {s \in SessionIds : sessions[s].status = "absent"}
(* the provider names a new session; which unused id it takes is of no     *)
(* consequence, so it takes the first                                      *)
NextSessionId ==
  IF FreeSessionIds = {} THEN None
  ELSE SessionSeq[CHOOSE i \in 1..Len(SessionSeq) :
                    /\ SessionSeq[i] \in FreeSessionIds
                    /\ \A j \in 1..(i-1) : SessionSeq[j] \notin FreeSessionIds]

(* room for one more suspended handler / one that will insert a payment /  *)
(* one that will create a session                                          *)
CanSuspend == BagCardinality(reqs) < MaxReq
CanAdmitApply == CanSuspend /\ Len(paymentsCollection) + NumApplying < MaxPayments
CanAdmitCheckout == CanSuspend /\ NumCreating < Cardinality(FreeSessionIds)

Suspend(rq) == reqs' = reqs (+) SetToBag({rq})
Resume(rq, rq2) == reqs' = (reqs (-) SetToBag({rq})) (+) SetToBag({rq2})
Finish(rq) == reqs' = reqs (-) SetToBag({rq})

(* --------------------------- environment ------------------------------ *)
(* the wall clock advances *)
Tick ==
  /\ now < MaxClock
  /\ now' = now + 1
  /\ UNCHANGED <<content, dbReady, conn, handles, store, sessions, reqs, resp>>

(* run(): client.connect() resolves, the handles are assigned, dbReady *)
RunConnectedWithoutHandles ==
  /\ conn = "connecting"
  /\ conn' = "connected"
  /\ handles' = FALSE
  /\ dbReady' = TRUE
  /\ UNCHANGED <<content, store, sessions, reqs, resp, now>>

RunConnected ==
  /\ conn = "connecting"
  /\ conn' = "connected"
  /\ handles' = TRUE
  /\ dbReady' = TRUE
  /\ UNCHANGED <<content, store, sessions, reqs, resp, now>>

(* run().catch: client.connect() rejects *)
RunFailed ==
  /\ conn = "connecting"
  /\ conn' = "failed"
  /\ dbReady' = FALSE
  /\ UNCHANGED <<content, handles, store, sessions, reqs, resp, now>>

(* the customer pays an open checkout session at the provider *)
CustomerPays(s) ==
  /\ sessions[s].status = "unpaid"
  /\ sessions' = [sessions EXCEPT ![s].status = "paid"]
  /\ UNCHANGED <<content, dbReady, conn, handles, store, reqs, resp, now>>

(* a checkout session of the same provider account made outside this      *)
(* server: it carries no metadata                                          *)
ExternalSession(s) ==
  /\ s \in ExternalIds
  /\ sessions[s].status = "absent"
  /\ sessions' = [sessions EXCEPT ![s] =
        [status |-> "unpaid", uid |-> None, email |-> None,
         customer_email |-> "e1"]]
  /\ UNCHANGED <<content, dbReady, conn, handles, store, reqs, resp, now>>

(* if (!dbReady) return res.status(503).json({message: "DB not ready"}) *)
NotReadyNever(ready) == FALSE

NotReady(ready) == ~ready

(* ------------------------- POST /webhook ------------------------------ *)
(* stripe.webhooks.constructEvent(req.body, sig, secret) returns the event *)
(* for a body signed by the provider and throws for any other              *)
ConstructEventAcceptsAll(sigValid) == TRUE

ConstructEventOk(sigValid) == sigValid

(* if (event.type === "checkout.session.completed") *)
IsCheckoutCompletedAlways(ev) == TRUE

IsCheckoutCompleted(ev) == ev.type = "checkout.session.completed"

(* const uid = session?.metadata?.uid: the uid both handlers filter the    *)
(* user update by                                                          *)
SelectedUidByEmail(sess) ==
  IF \E u \in Uids : UserEmail(u) = SessionEmail(sess)
  THEN CHOOSE u \in Uids : UserEmail(u) = SessionEmail(sess)
  ELSE None

SelectedUid(sess) == sess.uid

(* if (uid) { ... } *)
UidPresentAlways(uid) == TRUE

UidPresent(uid) == uid # None

(* the events the provider signs: event.data.object of a                   *)
(* checkout.session.completed event is the paid session as it holds it     *)
GenuineEvents ==
  { [type |-> ty, sid |-> s, session |-> sessions[s]] :
      ty \in EventTypes, s \in {x \in SessionIds : sessions[x].status = "paid"} }

(* what a body that the provider did not sign may claim *)
ForgedEvents ==
  { [type |-> ty, sid |-> s,
     session |-> [status |-> "paid", uid |-> u, email |-> "e1",
                  customer_email |-> "e1"]] :
      ty \in EventTypes, s \in {SessionSeq[1]}, u \in {"u1", None} }

(* the responses of the handler: the readiness gate, the catch around      *)
(* constructEvent, the catch around the handler, and res.json({received:   *)
(* true}) for an event it applied and for one it had nothing to do for     *)
WebhookReplyRejectsIgnored(outcome, sg) ==
  CASE outcome = "notReady" ->
         Resp("webhook", 503, "DB not ready yet", None, sg)
    [] outcome = "badSignature" ->
         Resp("webhook", 400, "Webhook Error", None, sg)
    [] outcome = "threw" -> Resp("webhook", 500, "error", None, sg)
    [] outcome = "ignored" ->
         Resp("webhook", 400, "No uid in session metadata", None, sg)
    [] outcome = "applied" -> Resp("webhook", 200, "received", None, sg)

WebhookReply(outcome, sg) ==
  CASE outcome = "notReady" ->
         Resp("webhook", 503, "DB not ready yet", None, sg)
    [] outcome = "badSignature" ->
         Resp("webhook", 400, "Webhook Error", None, sg)
    [] outcome = "threw" -> Resp("webhook", 500, "error", None, sg)
    [] outcome = "ignored" -> Resp("webhook", 200, "received", None, sg)
    [] outcome = "applied" -> Resp("webhook", 200, "received", None, sg)

(* the handler up to and including its first store call,                   *)
(* await usersCollection.updateOne({uid}, {$set: {isPremium: true, ...}}); *)
(* ok = FALSE is that call rejecting                                       *)
WebhookArrive(sigValid, ev, ok) ==
  /\ ev \in (IF sigValid THEN GenuineEvents ELSE ForgedEvents)
  /\ LET sg == IF sigValid THEN "valid" ELSE "invalid"
         uid == SelectedUid(ev.session)
     IN
     IF NotReady(dbReady)
     THEN /\ resp' = WebhookReply("notReady", sg)
          /\ UNCHANGED <<usersCollection, reqs>>
     ELSE IF ~ConstructEventOk(sigValid)
     THEN /\ resp' = WebhookReply("badSignature", sg)
          /\ UNCHANGED <<usersCollection, reqs>>
     ELSE IF IsCheckoutCompleted(ev) /\ UidPresent(uid)
     THEN IF ok
          THEN /\ CanAdmitApply
               /\ usersCollection' = SetPremium(usersCollection, uid, now)
               /\ Suspend([kind |-> "webhook", pc |-> "insertPayment",
                           sid |-> ev.sid,
                           session |-> ev.session, sig |-> sg])
               /\ UNCHANGED resp
          ELSE /\ resp' = WebhookReply("threw", sg)
               /\ UNCHANGED <<usersCollection, reqs>>
     ELSE /\ resp' = WebhookReply("ignored", sg)
          /\ UNCHANGED <<usersCollection, reqs>>
  /\ UNCHANGED <<content, dbReady, conn, handles, paymentsCollection, sessions, now>>

(* await paymentsCollection.insertOne({...}); res.json({received: true}) *)
WebhookInsertPayment(rq) ==
  /\ rq \in Suspended
  /\ rq.kind = "webhook" /\ rq.pc = "insertPayment"
  /\ paymentsCollection' =
       InsertPayment(paymentsCollection, PaymentDoc(rq.sid, rq.session, now))
  /\ Finish(rq)
  /\ resp' = WebhookReply("applied", rq.sig)
  /\ UNCHANGED <<content, dbReady, conn, handles, usersCollection, sessions, now>>

(* ---------------------- POST /payments/confirm ------------------------ *)
(* session.payment_status !== "paid" *)
NotPaidNever(sess) == FALSE

NotPaid(sess) == sess.status # "paid"

(* await stripe.checkout.sessions.retrieve(sessionId) rejects: the provider *)
(* does not know the id, or the call fails for another reason (ok = FALSE) *)
RetrieveRejectsNever(sess, ok) == FALSE

RetrieveRejects(sess, ok) == ~ok \/ sess.status = "absent"

(* if (!uid) return res.status(400)... *)
UidMissingNever(uid) == FALSE

UidMissing(uid) == uid = None

(* the responses of the handler *)
ConfirmReply(outcome, uid) ==
  CASE outcome = "notReady" ->
         Resp("confirm", 503, "DB not ready", None, "n/a")
    [] outcome = "noSessionId" ->
         Resp("confirm", 400, "sessionId required", None, "n/a")
    [] outcome = "threw" -> Resp("confirm", 500, "error", None, "n/a")
    [] outcome = "notPaid" ->
         Resp("confirm", 400, "Payment not completed yet", None, "n/a")
    [] outcome = "noUid" ->
         Resp("confirm", 400, "No uid in session metadata", None, "n/a")
    [] outcome = "applied" -> Resp("confirm", 200, "ok", uid, "n/a")

(* the handler up to the first store call: the checks on the request and   *)
(* const session = await stripe.checkout.sessions.retrieve(sessionId);     *)
(* retrieve rejects for an id the provider does not know, and ok = FALSE   *)
(* is it rejecting for any other reason                                    *)
ConfirmArrive(sid, ok) ==
  /\ IF NotReady(dbReady)
     THEN /\ resp' = ConfirmReply("notReady", None)
          /\ UNCHANGED reqs
     ELSE IF sid = None
     THEN /\ resp' = ConfirmReply("noSessionId", None)
          /\ UNCHANGED reqs
     ELSE IF RetrieveRejects(sessions[sid], ok)
     THEN /\ resp' = ConfirmReply("threw", None)
          /\ UNCHANGED reqs
     ELSE IF NotPaid(sessions[sid])
     THEN /\ resp' = ConfirmReply("notPaid", None)
          /\ UNCHANGED reqs
     ELSE IF UidMissing(sessions[sid].uid)
     THEN /\ resp' = ConfirmReply("noUid", None)
          /\ UNCHANGED reqs
     ELSE /\ CanAdmitApply
          /\ Suspend([kind |-> "confirm", pc |-> "updateUser", sid |-> sid,
                      session |-> sessions[sid],
                      sig |-> "n/a"])
          /\ UNCHANGED resp
  /\ UNCHANGED <<content, dbReady, conn, handles, store, sessions, now>>

(* await usersCollection.updateOne({uid}, {$set: {isPremium: true, ...}}) *)
ConfirmUpdateUser(rq) ==
  /\ rq \in Suspended
  /\ rq.kind = "confirm" /\ rq.pc = "updateUser"
  /\ usersCollection' =
       SetPremium(usersCollection, SelectedUid(rq.session), now)
  /\ Resume(rq, [rq EXCEPT !.pc = "upsertPayment"])
  /\ UNCHANGED <<content, dbReady, conn, handles, paymentsCollection, sessions, resp, now>>

(* await paymentsCollection.updateOne(..., {upsert: true});                *)
(* res.json({ok: true, isPremium: true})                                   *)
ConfirmUpsertPayment(rq) ==
  /\ rq \in Suspended
  /\ rq.kind = "confirm" /\ rq.pc = "upsertPayment"
  /\ paymentsCollection' =
       UpsertPayment(paymentsCollection, PaymentDoc(rq.sid, rq.session, now))
  /\ Finish(rq)
  /\ resp' = ConfirmReply("applied", rq.session.uid)
  /\ UNCHANGED <<content, dbReady, conn, handles, usersCollection, sessions, now>>

(* ------------------- POST /create-checkout-session -------------------- *)
(* the responses of the handler *)
CheckoutReply(outcome) ==
  CASE outcome = "notReady" ->
         Resp("checkout", 503, "DB not ready", None, "n/a")
    [] outcome = "missing" ->
         Resp("checkout", 400, "uid & email required", None, "n/a")
    [] outcome = "threw" -> Resp("checkout", 500, "error", None, "n/a")
    [] outcome = "noUser" ->
         Resp("checkout", 404, "User not found. Upsert first.", None, "n/a")
    [] outcome = "premium" ->
         Resp("checkout", 400, "Already premium", None, "n/a")
    [] outcome = "created" -> Resp("checkout", 200, "url", None, "n/a")

(* if (user.isPremium) return res.status(400)... *)
AlreadyPremiumNever(user) == FALSE

AlreadyPremium(user) == user.isPremium

(* the handler up to the provider call: the checks on the request and      *)
(* const user = await usersCollection.findOne({uid}); ok = FALSE is        *)
(* findOne rejecting                                                       *)
CheckoutArrive(body, ok) ==
  /\ LET i == FirstUser(usersCollection, body.uid) IN
     IF NotReady(dbReady)
     THEN /\ resp' = CheckoutReply("notReady")
          /\ UNCHANGED reqs
     ELSE IF body.uid = None \/ body.email = None
     THEN /\ resp' = CheckoutReply("missing")
          /\ UNCHANGED reqs
     ELSE IF ~ok
     THEN /\ resp' = CheckoutReply("threw")
          /\ UNCHANGED reqs
     ELSE IF i = 0
     THEN /\ resp' = CheckoutReply("noUser")
          /\ UNCHANGED reqs
     ELSE IF AlreadyPremium(usersCollection[i])
     THEN /\ resp' = CheckoutReply("premium")
          /\ UNCHANGED reqs
     ELSE /\ CanAdmitCheckout
          /\ Suspend([kind |-> "checkout", pc |-> "createSession", sid |-> None,
                      session |-> [status |-> "unpaid", uid |-> body.uid,
                                   email |-> body.email,
                                   customer_email |-> body.email],
                      sig |-> "n/a"])
          /\ UNCHANGED resp
  /\ UNCHANGED <<content, dbReady, conn, handles, store, sessions, now>>

(* const session = await stripe.checkout.sessions.create({...,             *)
(*   customer_email: email, metadata: {uid, email}}); res.json({url})      *)
CheckoutCreated(rq, s) ==
  /\ rq \in Suspended
  /\ rq.kind = "checkout" /\ rq.pc = "createSession"
  /\ s = NextSessionId
  /\ sessions' = [sessions EXCEPT ![s] = rq.session]
  /\ Finish(rq)
  /\ resp' = CheckoutReply("created")
  /\ UNCHANGED <<content, dbReady, conn, handles, store, now>>

(* the awaited store or provider call of a suspended handler rejects: the  *)
(* handler's catch answers 500 {message: e.message}                        *)
AwaitRejects(rq) ==
  /\ rq \in Suspended
  /\ Finish(rq)
  /\ resp' = CASE rq.kind = "webhook" -> WebhookReply("threw", rq.sig)
               [] rq.kind = "confirm" -> ConfirmReply("threw", None)
               [] rq.kind = "checkout" -> CheckoutReply("threw")
  /\ UNCHANGED <<content, dbReady, conn, handles, store, sessions, now>>

(* ------------------------ POST /users/upsert -------------------------- *)
(* The three user-administration handlers make one store call each.  A    *)
(* request they answer 503, 400 or 500 changes nothing and is a step that  *)
(* leaves every variable as it is; the actions are the requests that reach *)
(* the store.                                                              *)
UsersUpsert(body) ==
  /\ ~NotReady(dbReady)
  /\ body.uid # None /\ body.email # None
  /\ usersCollection' = UpsertUser(usersCollection, body.uid, body.email, now)
  /\ UNCHANGED <<content, dbReady, conn, handles, paymentsCollection, sessions, reqs,
                 resp, now>>

(* ---------------------- PATCH /admin/users/role ----------------------- *)
AdminUsersRole(body) ==
  /\ ~NotReady(dbReady)
  /\ body.uid # None /\ body.role \in Roles
  /\ usersCollection' = SetRole(usersCollection, body.uid, body.role, now)
  /\ UNCHANGED <<content, dbReady, conn, handles, paymentsCollection, sessions, reqs,
                 resp, now>>

(* --------------------- DELETE /admin/users/:uid ----------------------- *)
AdminUsersDelete(uid) ==
  /\ ~NotReady(dbReady)
  /\ usersCollection' = DeleteUser(usersCollection, uid)
  /\ UNCHANGED <<content, dbReady, conn, handles, paymentsCollection, sessions, reqs,
                 resp, now>>

(* --------------------------- specification ---------------------------- *)
Next ==
  \/ RunConnected
  \/ RunFailed
  \/ \E s \in SessionIds : CustomerPays(s)
  \/ \E s \in SessionIds : ExternalSession(s)
  \/ \E rq \in Suspended : AwaitRejects(rq)
  \/ \E ev \in GenuineEvents, ok \in BOOLEAN : WebhookArrive(TRUE, ev, ok)
  \/ \E ev \in ForgedEvents : WebhookArrive(FALSE, ev, TRUE)
  \/ \E rq \in Suspended : WebhookInsertPayment(rq)
  \/ \E sid \in ConfirmIds, ok \in BOOLEAN : ConfirmArrive(sid, ok)
  \/ \E rq \in Suspended : ConfirmUpdateUser(rq)
  \/ \E rq \in Suspended : ConfirmUpsertPayment(rq)
  \/ \E body \in CheckoutBodies, ok \in BOOLEAN : CheckoutArrive(body, ok)
  \/ \E rq \in Suspended, s \in SessionIds : CheckoutCreated(rq, s)
  \/ \E body \in UpsertBodies : UsersUpsert(body)
  \/ \E body \in RoleBodies : AdminUsersRole(body)
  \/ \E uid \in Uids : AdminUsersDelete(uid)

Spec == Init /\ [][Next]_vars

(* A second specification: the same server with the wall clock running. *)
NextClock == Next \/ Tick

SpecClock == Init /\ [][NextClock]_vars

(* ============================ properties ============================== *)
PaymentsFor(payments, sid) ==
  {i \in 1..Len(payments) : payments[i].stripeSessionId = sid}
UserExists(users, uid) == FirstUser(users, uid) # 0
IsPremium(users, uid) ==
  UserExists(users, uid) /\ users[FirstUser(users, uid)].isPremium

(* The store after a handler has run from its first store call to its last *)
(* with no other handler in between.                                       *)
Store == [users |-> usersCollection, payments |-> paymentsCollection]

(* POST /webhook for a completed session: updateOne, then insertOne *)
WebhookApplied(st, sid, sess, t) ==
  [users |-> SetPremium(st.users, sess.uid, t),
   payments |-> InsertPayment(st.payments, PaymentDoc(sid, sess, t))]

(* POST /payments/confirm for a paid session: updateOne, then the upsert *)
ConfirmApplied(st, sid, sess, t) ==
  [users |-> SetPremium(st.users, sess.uid, t),
   payments |-> UpsertPayment(st.payments, PaymentDoc(sid, sess, t))]

(* a paid session of an existing user that neither path has handled yet *)
Unhandled(s) ==
  /\ dbReady
  /\ sessions[s].status = "paid"
  /\ UserExists(usersCollection, sessions[s].uid)
  /\ PaymentsFor(paymentsCollection, s) = {}
  /\ \A rq \in Suspended : rq.sid # s

OneRecordAndPremium(st, s) ==
  /\ Cardinality(PaymentsFor(st.payments, s)) = 1
  /\ IsPremium(st.users, sessions[s].uid)

(* C1: in every reachable state the payments collection holds at most one  *)
(* payment document per checkout-session id (stripeSessionId).             *)
C1_OnePaymentPerSession ==
  \A s \in SessionIds : Cardinality(PaymentsFor(paymentsCollection, s)) <= 1

(* C2: for a paid session of an existing user, the webhook path followed   *)
(* by the confirmation path, and the confirmation path followed by the     *)
(* webhook path, both end as either path alone does: exactly one payment   *)
(* document for the session and the user premium.                          *)
C2_PathsConverge ==
  \A s \in SessionIds : Unhandled(s) =>
    LET sess == sessions[s]
        w == WebhookApplied(Store, s, sess, now)
        c == ConfirmApplied(Store, s, sess, now)
        wc == ConfirmApplied(w, s, sess, now)
        cw == WebhookApplied(c, s, sess, now)
    IN /\ OneRecordAndPremium(w, s) /\ OneRecordAndPremium(c, s)
       /\ OneRecordAndPremium(wc, s) /\ OneRecordAndPremium(cw, s)
       /\ wc = w /\ cw = c

(* C3: the same entry point handling the same paid session twice leaves    *)
(* exactly one payment document and the user premium.                      *)
C3_ApplyTwiceIdempotent ==
  \A s \in SessionIds : Unhandled(s) =>
    LET sess == sessions[s]
        ww == WebhookApplied(WebhookApplied(Store, s, sess, now), s, sess, now)
        cc == ConfirmApplied(ConfirmApplied(Store, s, sess, now), s, sess, now)
    IN OneRecordAndPremium(ww, s) /\ OneRecordAndPremium(cc, s)

(* C4: when a webhook delivery and a confirmation of the same session are  *)
(* suspended at the same time, every order in which their remaining store  *)
(* calls are served ends with exactly one payment document for it.         *)
C4_ConcurrentPathsOneRecord ==
  \A w \in Suspended, c \in Suspended :
    ( /\ w.kind = "webhook" /\ c.kind = "confirm" /\ w.sid = c.sid
      /\ PaymentsFor(paymentsCollection, w.sid) = {} ) =>
    LET dw == PaymentDoc(w.sid, w.session, now)
        dc == PaymentDoc(c.sid, c.session, now)
        ends == { UpsertPayment(InsertPayment(paymentsCollection, dw), dc),
                  InsertPayment(UpsertPayment(paymentsCollection, dc), dw) }
    IN \A e \in ends : Cardinality(PaymentsFor(e, w.sid)) = 1

(* C5: a webhook request whose signature verification fails changes      *)
(* neither collection, leaves no handler suspended that could write later, *)
(* and, when the store is ready, is answered 400 (when it is not ready the *)
(* request is answered 503 before verification is attempted).              *)
C5_BadSignatureNoMutation ==
  [][ \A ev \in ForgedEvents :
        WebhookArrive(FALSE, ev, TRUE) =>
          /\ UNCHANGED <<store, reqs>>
          /\ dbReady => resp' = WebhookReply("badSignature", "invalid")
          /\ resp'.status \in {400, 503} ]_vars

C5_Witness ==
  /\ resp = WebhookReply("badSignature", "invalid")
  /\ resp.status = 400
  /\ \E s \in SessionIds : sessions[s].status = "paid"

(* C6: a confirmation whose retrieved session is not paid is answered 400  *)
(* and changes neither collection nor suspends a handler.                  *)
C6_UnpaidConfirmRejected ==
  [][ \A sid \in SessionIds :
        ( /\ dbReady
          /\ sessions[sid].status = "unpaid"
          /\ ConfirmArrive(sid, TRUE) ) =>
          /\ resp' = ConfirmReply("notPaid", None)
          /\ resp'.status = 400
          /\ UNCHANGED <<store, reqs>> ]_vars

C6_Witness ==
  /\ resp = ConfirmReply("notPaid", None)
  /\ \E s \in SessionIds : sessions[s].status = "unpaid"

(* C7: while dbReady is false, a webhook, confirmation or checkout-create  *)
(* request is answered 503 and changes neither collection, creates no      *)
(* session and suspends no handler.                                        *)
EntitlementArrives ==
  \/ \E sv \in BOOLEAN, ev \in GenuineEvents \cup ForgedEvents, ok \in BOOLEAN :
       WebhookArrive(sv, ev, ok)
  \/ \E sid \in ConfirmIds, ok \in BOOLEAN : ConfirmArrive(sid, ok)
  \/ \E body \in CheckoutBodies, ok \in BOOLEAN : CheckoutArrive(body, ok)

C7_NotReadyAnswers503 ==
  [][ (~dbReady /\ EntitlementArrives) =>
        /\ resp'.status = 503
        /\ UNCHANGED <<store, reqs, sessions>> ]_vars

C7_Witness ==
  /\ ~dbReady
  /\ resp.status = 503
  /\ resp.kind = "webhook"
  /\ resp.sig = "valid"

(* the steps in which POST /webhook answers a delivery whose signature     *)
(* verified while the store was ready: at arrival when nothing is left to  *)
(* await, after the insert, or from the catch around the handler           *)
WebhookAnswersAtArrival(ok) ==
  /\ dbReady
  /\ \E ev \in GenuineEvents : WebhookArrive(TRUE, ev, ok)
  /\ UNCHANGED reqs

WebhookAnswersAfterInsert ==
  \E rq \in Suspended :
    rq.kind = "webhook" /\ rq.sig = "valid" /\ WebhookInsertPayment(rq)

WebhookAnswersFromCatch ==
  \E rq \in Suspended :
    rq.kind = "webhook" /\ rq.sig = "valid" /\ AwaitRejects(rq)

Received200 == Resp("webhook", 200, "received", None, "valid")

(* C8 as stated: every webhook request whose signature verified while the  *)
(* store was ready is answered 200 {received: true}.                       *)
C8_AlwaysReceived ==
  [][ ( \/ \E ok \in BOOLEAN : WebhookAnswersAtArrival(ok)
        \/ WebhookAnswersAfterInsert
        \/ WebhookAnswersFromCatch ) => resp' = Received200 ]_vars

(* C8 amended: such a request is answered 200 {received: true} unless one  *)
(* of its store calls rejects, and then it is answered 500; no other       *)
(* status is returned.                                                     *)
C8_ReceivedUnlessStoreFails ==
  [][ /\ (WebhookAnswersAtArrival(TRUE) \/ WebhookAnswersAfterInsert)
          => resp' = Received200
      /\ WebhookAnswersAtArrival(FALSE)
          => resp' \in {Received200, WebhookReply("threw", "valid")}
      /\ WebhookAnswersFromCatch
          => (resp' = WebhookReply("threw", "valid") /\ resp'.status = 500)
    ]_vars

C8_Witness ==
  /\ resp = WebhookReply("threw", "valid")
  /\ resp.status = 500
  /\ dbReady

(* C9: no step takes a user document from isPremium = true to false: as    *)
(* long as the document exists after the step, it is still premium.        *)
(* (DELETE /admin/users/:uid removes the document; an upsert after it      *)
(* creates a new one, which starts with isPremium = false.)                *)
C9_PremiumNeverReverts ==
  [][ \A u \in Uids :
        (IsPremium(usersCollection, u) /\ UserExists(usersCollection', u))
          => IsPremium(usersCollection', u) ]_vars

C9_Witness ==
  /\ IsPremium(usersCollection, "u1")
  /\ usersCollection[FirstUser(usersCollection, "u1")].role = "admin"
  /\ resp = CheckoutReply("premium")

(* C10: at the moment POST /payments/confirm answers success, a user       *)
(* document with the session's uid exists and is premium.                  *)
C10_ConfirmSuccessMeansPremium ==
  [][ \A rq \in Suspended :
        ConfirmUpsertPayment(rq) =>
          /\ resp' = ConfirmReply("applied", rq.session.uid)
          /\ IsPremium(usersCollection', rq.session.uid) ]_vars

(* C11: a handler whose user update matched no document (the session's uid *)
(* is not a known user) does not go on to record the payment as applied:   *)
(* the webhook is not left suspended at its insert, and the confirmation   *)
(* ends there with an error response.                                      *)
C11_UnknownUserFails ==
  [][ /\ \A ev \in GenuineEvents :
           ( /\ dbReady
             /\ ev.type = "checkout.session.completed"
             /\ ev.session.uid # None
             /\ ~UserExists(usersCollection, ev.session.uid)
             /\ WebhookArrive(TRUE, ev, TRUE) ) => UNCHANGED reqs
      /\ \A rq \in Suspended :
           ( /\ ~UserExists(usersCollection, rq.session.uid)
             /\ ConfirmUpdateUser(rq) ) =>
               /\ reqs' = reqs (-) SetToBag({rq})
               /\ resp'.kind = "confirm" /\ resp'.status \notin {0, 200} ]_vars

(* C12: a confirmation of a session that already has its one payment       *)
(* document (the webhook recorded it and made the user premium) changes    *)
(* no payment document, leaves the user premium and answers                *)
(* {ok: true, isPremium: true}.                                            *)
C12_ConfirmAfterWebhook ==
  [][ \A rq \in Suspended :
        /\ ConfirmUpdateUser(rq) =>
             /\ UNCHANGED paymentsCollection
             /\ IsPremium(usersCollection, rq.session.uid)
                  => IsPremium(usersCollection', rq.session.uid)
        /\ ( /\ Cardinality(PaymentsFor(paymentsCollection, rq.sid)) = 1
             /\ ConfirmUpsertPayment(rq) ) =>
             /\ paymentsCollection' = paymentsCollection
             /\ resp' = ConfirmReply("applied", rq.session.uid)
             /\ resp'.status = 200 ]_vars

C12_Witness ==
  /\ resp = Received200
  /\ \E rq \in Suspended :
       /\ rq.kind = "confirm" /\ rq.pc = "upsertPayment"
       /\ BagCardinality(reqs) = 1
       /\ Cardinality(PaymentsFor(paymentsCollection, rq.sid)) = 1
       /\ IsPremium(usersCollection, rq.session.uid)

(* The server when the provider delivers no webhook and no user is         *)
(* deleted: the confirmation path is the only one that applies a payment.  *)
NextConfirmOnly ==
  \/ RunConnected
  \/ RunFailed
  \/ \E s \in SessionIds : CustomerPays(s)
  \/ \E s \in SessionIds : ExternalSession(s)
  \/ \E rq \in Suspended : AwaitRejects(rq)
  \/ \E sid \in ConfirmIds, ok \in BOOLEAN : ConfirmArrive(sid, ok)
  \/ \E rq \in Suspended : ConfirmUpdateUser(rq)
  \/ \E rq \in Suspended : ConfirmUpsertPayment(rq)
  \/ \E body \in CheckoutBodies, ok \in BOOLEAN : CheckoutArrive(body, ok)
  \/ \E rq \in Suspended, s \in SessionIds : CheckoutCreated(rq, s)
  \/ \E body \in UpsertBodies : UsersUpsert(body)
  \/ \E body \in RoleBodies : AdminUsersRole(body)

SpecConfirmOnly == Init /\ [][NextConfirmOnly]_vars

(* C13: with no webhook delivered, a confirmation of a paid session of an  *)
(* existing user ends with that user premium, exactly one payment document *)
(* for the session, and the answer {ok: true, isPremium: true}.            *)
C13_ConfirmOnlyApplies ==
  [][ \A rq \in Suspended :
        ConfirmUpsertPayment(rq) =>
          /\ Cardinality(PaymentsFor(paymentsCollection', rq.sid)) = 1
          /\ paymentsCollection'[FirstPayment(paymentsCollection', rq.sid)].uid
               = rq.session.uid
          /\ IsPremium(usersCollection', rq.session.uid)
          /\ resp' = ConfirmReply("applied", rq.session.uid) ]_vars

C13_Witness ==
  \E s \in SessionIds :
    /\ sessions[s].status = "paid"
    /\ Cardinality(PaymentsFor(paymentsCollection, s)) = 1
    /\ IsPremium(usersCollection, sessions[s].uid)
    /\ resp = ConfirmReply("applied", sessions[s].uid)

(* the session a handler works on has been applied already: its user is    *)
(* premium and a payment document for it exists                            *)
AlreadyApplied(sid, uid) ==
  /\ IsPremium(usersCollection, uid)
  /\ PaymentsFor(paymentsCollection, sid) # {}

(* C14: the user update of either path and the confirmation's payment      *)
(* upsert, made for a session which has been applied already, write        *)
(* nothing: the user documents (updatedAt included) and the payment        *)
(* documents stay as they are, and the confirmation answers 200.           *)
C14_NoRedundantWrite ==
  [][ /\ \A ev \in GenuineEvents :
           ( /\ dbReady
             /\ ev.type = "checkout.session.completed"
             /\ ev.session.uid # None
             /\ AlreadyApplied(ev.sid, ev.session.uid)
             /\ WebhookArrive(TRUE, ev, TRUE) ) => UNCHANGED store
      /\ \A rq \in Suspended :
           AlreadyApplied(rq.sid, rq.session.uid) =>
             /\ ConfirmUpdateUser(rq) => UNCHANGED store
             /\ ConfirmUpsertPayment(rq) =>
                  (UNCHANGED store /\ resp'.status = 200) ]_vars

(* C15: a signed checkout.session.completed event whose session carries no *)
(* metadata.uid, delivered while the store is ready, is answered           *)
(* 200 {received: true}, changes neither collection and leaves no handler  *)
(* suspended.                                                              *)
C15_NoUidStillAcknowledged ==
  [][ \A ev \in GenuineEvents, ok \in BOOLEAN :
        ( /\ dbReady
          /\ ev.type = "checkout.session.completed"
          /\ ev.session.uid = None
          /\ WebhookArrive(TRUE, ev, ok) ) =>
          /\ resp' = Received200
          /\ resp'.status = 200
          /\ UNCHANGED <<store, reqs>> ]_vars

(* the only paid session is one without metadata, and a webhook for it was *)
(* the last request answered                                               *)
C15_Witness ==
  /\ resp = Received200
  /\ \E s \in SessionIds : sessions[s].status = "paid"
  /\ \A s \in SessionIds : sessions[s].status = "paid" => sessions[s].uid = None
  /\ store = << <<>>, <<>> >>

(* the fields of a user document *)
UserFields(users, uid) == DOMAIN users[FirstUser(users, uid)]

(* C16: every user document that an apply has made premium carries a       *)
(* premiumSince field.                                                     *)
C16_PremiumSinceSet ==
  \A u \in Uids :
    IsPremium(usersCollection, u) =>
      "premiumSince" \in UserFields(usersCollection, u)

(* C17: a well-formed POST /create-checkout-session served while the store *)
(* is ready goes on to create a provider session only if the user it looks *)
(* up exists and is not premium; for an unknown uid it answers 404, for a  *)
(* premium user 400, and in both cases no session is created and no        *)
(* handler is left to create one.                                          *)
C17_CheckoutPreconditions ==
  [][ \A body \in CheckoutBodies :
        ( /\ dbReady
          /\ body.uid # None /\ body.email # None
          /\ CheckoutArrive(body, TRUE) ) =>
          /\ ~UserExists(usersCollection, body.uid) =>
               /\ resp' = CheckoutReply("noUser") /\ resp'.status = 404
               /\ UNCHANGED <<store, sessions, reqs>>
          /\ IsPremium(usersCollection, body.uid) =>
               /\ resp' = CheckoutReply("premium") /\ resp'.status = 400
               /\ UNCHANGED <<store, sessions, reqs>>
          /\ reqs' # reqs =>
               /\ UserExists(usersCollection, body.uid)
               /\ ~IsPremium(usersCollection, body.uid) ]_vars

C17_Witness ==
  /\ resp = CheckoutReply("premium")
  /\ reqs = EmptyBag
  /\ \E u \in Uids : IsPremium(usersCollection, u)
  /\ \A s \in SessionIds : sessions[s].status # "unpaid"

(* C17 as stated: whenever a provider session is created and its url is    *)
(* returned, the user of the request exists and is not premium.            *)
C17_CreatedOnlyForNonPremium ==
  [][ \A rq \in Suspended, s \in SessionIds :
        CheckoutCreated(rq, s) =>
          /\ UserExists(usersCollection, rq.session.uid)
          /\ ~IsPremium(usersCollection, rq.session.uid) ]_vars

(* C18: a confirmation of a paid session whose metadata carries no uid,    *)
(* served while the store is ready, is answered 400, changes neither       *)
(* collection and leaves no handler suspended.                             *)
C18_ConfirmWithoutUidRejected ==
  [][ \A sid \in SessionIds :
        ( /\ dbReady
          /\ sessions[sid].status = "paid"
          /\ sessions[sid].uid = None
          /\ ConfirmArrive(sid, TRUE) ) =>
          /\ resp' = ConfirmReply("noUid", None)
          /\ resp'.status = 400
          /\ UNCHANGED <<store, reqs>> ]_vars

C18_Witness ==
  /\ resp = ConfirmReply("noUid", None)
  /\ \E s \in SessionIds : sessions[s].status = "paid" /\ sessions[s].uid = None

(* C19: when the provider's session retrieval rejects (an unknown session  *)
(* id or any other failure), the confirmation is answered 500, changes     *)
(* neither collection and leaves no handler suspended.                     *)
C19_RetrieveFailureNoChange ==
  [][ \A sid \in SessionIds :
        ( /\ dbReady
          /\ \/ ConfirmArrive(sid, FALSE)
             \/ sessions[sid].status = "absent" /\ ConfirmArrive(sid, TRUE) ) =>
          /\ resp' = ConfirmReply("threw", None)
          /\ resp'.status = 500
          /\ UNCHANGED <<store, reqs>> ]_vars

(* no session has been paid, so no confirmation ever reached the store:    *)
(* the 500 answers a failed retrieval                                      *)
C19_Witness ==
  /\ resp = ConfirmReply("threw", None)
  /\ \A s \in SessionIds : sessions[s].status # "paid"
  /\ \E s \in SessionIds : sessions[s].status = "unpaid"

(* an apply of session s failed between its two store calls and was        *)
(* answered 500: the user is premium and no payment document exists        *)
PartiallyApplied(s) ==
  /\ dbReady
  /\ sessions[s].status = "paid"
  /\ IsPremium(usersCollection, sessions[s].uid)
  /\ PaymentsFor(paymentsCollection, s) = {}
  /\ \A rq \in Suspended : rq.sid # s
  /\ resp.status = 500 /\ resp.kind \in {"webhook", "confirm"}

(* the stores that 1..n retries of the session, each through either path   *)
(* and each run to completion, can end in                                  *)
RECURSIVE Retried(_, _, _, _)
Retried(st, s, sess, n) ==
  IF n = 0 THEN {}
  ELSE LET once == { WebhookApplied(st, s, sess, now),
                     ConfirmApplied(st, s, sess, now) }
       IN once \cup UNION { Retried(x, s, sess, n - 1) : x \in once }

(* C20: after an apply that failed between the user update and the payment *)
(* write, every sequence of retries of the session through either path     *)
(* ends with the user premium and exactly one payment document for it.     *)
C20_RetryAfterPartialFailure ==
  \A s \in SessionIds :
    PartiallyApplied(s) =>
      \A e \in Retried(Store, s, sessions[s], MaxRetries) :
        OneRecordAndPremium(e, s)

(* C22: no step changes or removes a payment document that exists: the     *)
(* payments collection only grows at its end.                              *)
C22_PaymentsNeverChange ==
  [][ /\ Len(paymentsCollection') >= Len(paymentsCollection)
      /\ \A i \in 1..Len(paymentsCollection) :
           paymentsCollection'[i] = paymentsCollection[i] ]_vars

(* a payment document outlives the deletion of its user and a later        *)
(* payment of another session                                              *)
C22_Witness ==
  /\ Len(paymentsCollection) = 2
  /\ paymentsCollection[1].stripeSessionId # paymentsCollection[2].stripeSessionId
  /\ ~UserExists(usersCollection, paymentsCollection[1].uid)

(* res.status(...).json({message}) sends a JSON object with a message; the *)
(* other bodies are the plain text sent by res.status(400).send(...), the  *)
(* success objects, and no response at all                                 *)
JsonMessage(r) == r.body \notin {"Webhook Error", "received", "ok", "url", "none"}

(* C24: every error response of /webhook, /payments/confirm and            *)
(* /create-checkout-session carries a JSON {message} body.                 *)
C24_ErrorsAreJsonMessages ==
  resp.status >= 400 => JsonMessage(resp)

(* C25: the user update of either path changes no user document other than *)
(* that of the session's metadata.uid, whatever e-mail the session and the *)
(* payment document carry.                                                 *)
OthersUntouched(uid) ==
  \A u \in Uids \ {uid} :
    /\ UserExists(usersCollection', u) <=> UserExists(usersCollection, u)
    /\ IsPremium(usersCollection', u) <=> IsPremium(usersCollection, u)

C25_PremiumByMetadataUid ==
  [][ /\ \A ev \in GenuineEvents :
           (dbReady /\ WebhookArrive(TRUE, ev, TRUE)) =>
             OthersUntouched(ev.session.uid)
      /\ \A rq \in Suspended :
           ( \/ ConfirmUpdateUser(rq) \/ ConfirmUpsertPayment(rq)
             \/ WebhookInsertPayment(rq) ) =>
             OthersUntouched(rq.session.uid) ]_vars

(* u1 paid with the e-mail address of u2's account: u1 is premium, u2 is   *)
(* not, and the payment document carries that e-mail                       *)
C25_Witness ==
  /\ IsPremium(usersCollection, "u1")
  /\ UserExists(usersCollection, "u2")
  /\ ~IsPremium(usersCollection, "u2")
  /\ usersCollection[FirstUser(usersCollection, "u2")].email = "e2"
  /\ \E i \in 1..Len(paymentsCollection) :
       /\ paymentsCollection[i].uid = "u1"
       /\ paymentsCollection[i].email = "e2"

(* C26: a signed event of another type than checkout.session.completed,    *)
(* delivered while the store is ready, is answered 200 {received: true},   *)
(* changes neither collection and leaves no handler suspended.             *)
C26_OtherEventsAcknowledged ==
  [][ \A ev \in GenuineEvents, ok \in BOOLEAN :
        ( /\ dbReady
          /\ ev.type # "checkout.session.completed"
          /\ WebhookArrive(TRUE, ev, ok) ) =>
          /\ resp' = Received200
          /\ resp'.status = 200
          /\ UNCHANGED <<store, reqs>> ]_vars

(* a webhook was acknowledged although the paid session of an existing     *)
(* user has not been applied                                               *)
C26_Witness ==
  /\ resp = Received200
  /\ reqs = EmptyBag
  /\ paymentsCollection = <<>>
  /\ \E s \in SessionIds :
       /\ sessions[s].status = "paid"
       /\ UserExists(usersCollection, sessions[s].uid)
  /\ \A u \in Uids : ~IsPremium(usersCollection, u)

(* C27: dbReady holds only once the collection handles are assigned, it    *)
(* never goes back to false, and once the connection has failed it stays   *)
(* false, so that the gated entitlement handlers keep answering 503.       *)
C27_ReadyMeansHandles ==
  /\ [](dbReady => handles)
  /\ [][ /\ dbReady => dbReady'
         /\ conn = "failed" => (conn' = "failed" /\ ~dbReady')
         /\ (conn = "failed" /\ EntitlementArrives) => resp'.status = 503
       ]_vars

C27_Witness ==
  /\ conn = "failed"
  /\ ~dbReady
  /\ resp.status = 503
  /\ resp.kind = "confirm"

(* ------------------- concurrent POST /users/upsert -------------------- *)
(* The users collection has no unique index on uid (the server creates no  *)
(* index at all), so the store does not serialise two upserts of the same  *)
(* uid: each first looks for a matching document and, when it found none,  *)
(* inserts one, and another upsert may be served between the two.  An      *)
(* upsert that finds a document updates it in place.                       *)
NumUpserting == Copies(reqs, {x \in Suspended : x.kind = "upsert"})

UsersUpsertMatch(body) ==
  /\ ~NotReady(dbReady)
  /\ body.uid # None /\ body.email # None
  /\ IF UserExists(usersCollection, body.uid)
     THEN /\ usersCollection' =
               UpsertUser(usersCollection, body.uid, body.email, now)
          /\ UNCHANGED reqs
     ELSE /\ CanSuspend
          /\ Len(usersCollection) + NumUpserting < MaxUsers
          /\ Suspend([kind |-> "upsert", pc |-> "insert", sid |-> None,
                      session |-> [status |-> "n/a", uid |-> body.uid,
                                   email |-> body.email,
                                   customer_email |-> None],
                      sig |-> "n/a"])
          /\ UNCHANGED usersCollection
  /\ UNCHANGED <<content, dbReady, conn, handles, paymentsCollection, sessions, resp, now>>

UsersUpsertInsert(rq) ==
  /\ rq \in Suspended
  /\ rq.kind = "upsert" /\ rq.pc = "insert"
  /\ usersCollection' =
       Append(usersCollection,
              [uid |-> rq.session.uid, email |-> rq.session.email,
               role |-> "user", isPremium |-> FALSE, updatedAt |-> now])
  /\ Finish(rq)
  /\ UNCHANGED <<content, dbReady, conn, handles, paymentsCollection, sessions, resp, now>>

NextLogin ==
  \/ RunConnected
  \/ RunFailed
  \/ \E body \in UpsertBodies : UsersUpsertMatch(body)
  \/ \E rq \in Suspended : UsersUpsertInsert(rq)
  \/ \E body \in RoleBodies : AdminUsersRole(body)
  \/ \E uid \in Uids : AdminUsersDelete(uid)

SpecLogin == Init /\ [][NextLogin]_vars

UsersWithUid(users, uid) == {i \in 1..Len(users) : users[i].uid = uid}

(* C23: the users collection holds at most one document per uid.           *)
C23_UidUnique ==
  \A u \in Uids : Cardinality(UsersWithUid(usersCollection, u)) <= 1

(* ----------------------- lessons and what hangs on them ---------------- *)
(* The handlers below share dbReady, the handles, reqs and resp with the   *)
(* handlers above and leave users, payments and sessions alone.            *)
LessonIds == {"l1"}
(* the user whose requests to these handlers are followed *)
ContentUids == {"u1"}
InvalidId == "not-an-object-id"
entitlement == <<usersCollection, paymentsCollection, sessions, now>>

(* a response of these handlers: value is the likesCount, the saved flag   *)
(* or the success flag the body carries, None in a {message} body          *)
ContentResp(kind, status, body, value) ==
  [kind |-> kind, status |-> status, body |-> body, uid |-> None,
   sig |-> "n/a", value |-> value]

(* safeObjectId: null for an id that is missing or not an ObjectId *)
safeObjectId(id) == IF id \in {None, InvalidId} THEN None ELSE id

FirstLesson(lessons, id) ==
  IF \E i \in 1..Len(lessons) : lessons[i].id = id
  THEN CHOOSE i \in 1..Len(lessons) :
         /\ lessons[i].id = id
         /\ \A j \in 1..(i-1) : lessons[j].id # id
  ELSE 0

(* index of the first favorite of the pair, 0 if none *)
FirstFavorite(favs, uid, lessonId) ==
  IF \E i \in 1..Len(favs) : favs[i].uid = uid /\ favs[i].lessonId = lessonId
  THEN CHOOSE i \in 1..Len(favs) :
         /\ favs[i].uid = uid /\ favs[i].lessonId = lessonId
         /\ \A j \in 1..(i-1) :
              ~(favs[j].uid = uid /\ favs[j].lessonId = lessonId)
  ELSE 0

(* deleteMany({ lessonId }) *)
RECURSIVE DeleteMany(_, _)
DeleteMany(coll, lessonId) ==
  IF coll = <<>> THEN <<>>
  ELSE IF Head(coll).lessonId = lessonId
       THEN DeleteMany(Tail(coll), lessonId)
       ELSE <<Head(coll)>> \o DeleteMany(Tail(coll), lessonId)

(* a handler without the readiness gate reaches its first collection call  *)
(* while the handle is still undefined: TypeError, caught, 500             *)
HandleUndefined == ~handles

(* ---- PATCH /lessons/:id/like ---- *)
NumLiking ==
  Copies(reqs, {x \in Suspended : x.kind = "like" /\ x.pc = "update"})

(* the update of one toggle: $pull and -1 when the handler read the uid in *)
(* likes, $addToSet and +1 otherwise                                       *)
ToggleUpdate(lesson, uid, alreadyLiked, t) ==
  IF alreadyLiked
  THEN [lesson EXCEPT !.likes = @ \ {uid}, !.likesCount = @ - 1,
                      !.updatedAt = t]
  ELSE [lesson EXCEPT !.likes = @ \cup {uid}, !.likesCount = @ + 1,
                      !.updatedAt = t]

LikeArrive(uid, id, ok) ==
  /\ IF uid = None
     THEN /\ resp' = ContentResp("like", 400, "uid required", None)
          /\ UNCHANGED reqs
     ELSE IF safeObjectId(id) = None
     THEN /\ resp' = ContentResp("like", 400, "Invalid lesson id", None)
          /\ UNCHANGED reqs
     ELSE IF HandleUndefined
     THEN /\ resp' = ContentResp("like", 500, "TypeError", None)
          /\ UNCHANGED reqs
     ELSE IF ~ok
     THEN /\ resp' = ContentResp("like", 500, "store error", None)
          /\ UNCHANGED reqs
     ELSE IF FirstLesson(lessonsCollection, id) = 0
     THEN /\ resp' = ContentResp("like", 404, "Lesson not found", None)
          /\ UNCHANGED reqs
     ELSE LET lesson == lessonsCollection[FirstLesson(lessonsCollection, id)]
          IN  /\ CanSuspend
              /\ lesson.likesCount + NumLiking < MaxLikes
              /\ lesson.likesCount - NumLiking > -MaxLikes
              /\ Suspend([kind |-> "like", pc |-> "update", uid |-> uid,
                          lessonId |-> id, flag |-> uid \in lesson.likes])
              /\ UNCHANGED resp
  /\ UNCHANGED <<entitlement, dbReady, conn, handles, content>>

LikeUpdate(rq) ==
  /\ rq \in Suspended
  /\ rq.kind = "like" /\ rq.pc = "update"
  /\ LET i == FirstLesson(lessonsCollection, rq.lessonId)
     IN  lessonsCollection' =
           IF i = 0 THEN lessonsCollection
           ELSE [lessonsCollection EXCEPT
                   ![i] = ToggleUpdate(@, rq.uid, rq.flag, now)]
  /\ Resume(rq, [rq EXCEPT !.pc = "read"])
  /\ UNCHANGED <<entitlement, dbReady, conn, handles, favoritesCollection,
                 lessonReportsCollection, commentsCollection, resp>>

(* findOne with the likesCount projection, res.json({ likesCount }) *)
LikeRespond(rq) ==
  /\ rq \in Suspended
  /\ rq.kind = "like" /\ rq.pc = "read"
  /\ LET i == FirstLesson(lessonsCollection, rq.lessonId)
     IN  resp' = ContentResp("like", 200, "likesCount",
                             IF i = 0 THEN 0
                             ELSE lessonsCollection[i].likesCount)
  /\ Finish(rq)
  /\ UNCHANGED <<entitlement, dbReady, conn, handles, content>>

(* ---- POST /favorites/toggle ---- *)
NumFavoriteInserting ==
  Copies(reqs, {x \in Suspended : x.kind = "favorite" /\ x.pc = "insert"})

FavoriteArrive(uid, lessonId, ok) ==
  /\ IF uid = None \/ lessonId = None
     THEN /\ resp' = ContentResp("favorite", 400, "uid & lessonId required",
                                 None)
          /\ UNCHANGED reqs
     ELSE IF HandleUndefined
     THEN /\ resp' = ContentResp("favorite", 500, "TypeError", None)
          /\ UNCHANGED reqs
     ELSE IF ~ok
     THEN /\ resp' = ContentResp("favorite", 500, "store error", None)
          /\ UNCHANGED reqs
     ELSE LET exists == FirstFavorite(favoritesCollection, uid, lessonId) # 0
          IN  /\ CanSuspend
              /\ exists \/ Len(favoritesCollection) + NumFavoriteInserting
                             < MaxFavorites
              /\ Suspend([kind |-> "favorite",
                          pc |-> IF exists THEN "delete" ELSE "insert",
                          uid |-> uid, lessonId |-> lessonId,
                          flag |-> exists])
              /\ UNCHANGED resp
  /\ UNCHANGED <<entitlement, dbReady, conn, handles, content>>

(* deleteOne({ uid, lessonId }), res.json({ saved: false }) *)
FavoriteDelete(rq) ==
  /\ rq \in Suspended
  /\ rq.kind = "favorite" /\ rq.pc = "delete"
  /\ LET i == FirstFavorite(favoritesCollection, rq.uid, rq.lessonId)
     IN  favoritesCollection' =
           IF i = 0 THEN favoritesCollection
           ELSE RemoveAt(favoritesCollection, i)
  /\ resp' = ContentResp("favorite", 200, "saved", FALSE)
  /\ Finish(rq)
  /\ UNCHANGED <<entitlement, dbReady, conn, handles, lessonsCollection,
                 lessonReportsCollection, commentsCollection>>

(* insertOne({ uid, lessonId, createdAt }), res.json({ saved: true }) *)
FavoriteInsert(rq) ==
  /\ rq \in Suspended
  /\ rq.kind = "favorite" /\ rq.pc = "insert"
  /\ favoritesCollection' =
       Append(favoritesCollection,
              [uid |-> rq.uid, lessonId |-> rq.lessonId, createdAt |-> now])
  /\ resp' = ContentResp("favorite", 200, "saved", TRUE)
  /\ Finish(rq)
  /\ UNCHANGED <<entitlement, dbReady, conn, handles, lessonsCollection,
                 lessonReportsCollection, commentsCollection>>

(* ---- POST /comments ---- *)
CommentBodies ==
  {[lessonId |-> l, uid |-> "u1", text |-> "t"] : l \in LessonIds \cup {None}}

CommentsPost(body, ok) ==
  /\ IF body.lessonId = None \/ body.uid = None \/ body.text = None
     THEN /\ resp' = ContentResp("comment", 400,
                                 "lessonId, uid, text required", None)
          /\ UNCHANGED commentsCollection
     ELSE IF HandleUndefined
     THEN /\ resp' = ContentResp("comment", 500, "TypeError", None)
          /\ UNCHANGED commentsCollection
     ELSE IF ~ok
     THEN /\ resp' = ContentResp("comment", 500, "store error", None)
          /\ UNCHANGED commentsCollection
     ELSE /\ Len(commentsCollection) < MaxComments
          /\ commentsCollection' =
               Append(commentsCollection,
                      [lessonId |-> body.lessonId, uid |-> body.uid,
                       text |-> body.text, createdAt |-> now])
          /\ resp' = ContentResp("comment", 200, "success", TRUE)
  /\ UNCHANGED <<entitlement, dbReady, conn, handles, reqs, lessonsCollection,
                 favoritesCollection, lessonReportsCollection>>

(* ---- POST /lessonReports ---- *)
ReportBodies ==
  {[lessonId |-> l, reporterUid |-> "u1", reason |-> "r"] :
     l \in LessonIds \cup {None}}

LessonReportsPost(body, ok) ==
  /\ IF NotReady(dbReady)
     THEN /\ resp' = ContentResp("report", 503, "DB not ready", None)
          /\ UNCHANGED lessonReportsCollection
     ELSE IF body.lessonId = None \/ body.reporterUid = None
             \/ body.reason = None
     THEN /\ resp' = ContentResp("report", 400, "Missing report fields", None)
          /\ UNCHANGED lessonReportsCollection
     ELSE IF ~ok
     THEN /\ resp' = ContentResp("report", 500, "store error", None)
          /\ UNCHANGED lessonReportsCollection
     ELSE /\ Len(lessonReportsCollection) < MaxReports
          /\ lessonReportsCollection' =
               Append(lessonReportsCollection,
                      [lessonId |-> body.lessonId,
                       reporterUid |-> body.reporterUid,
                       reason |-> body.reason, createdAt |-> now])
          /\ resp' = ContentResp("report", 200, "success", TRUE)
  /\ UNCHANGED <<entitlement, dbReady, conn, handles, reqs, lessonsCollection,
                 favoritesCollection, commentsCollection>>

(* ---- DELETE /lessons/:id and DELETE /admin/lessons/:id ---- *)
(* the collections the handler empties of the lesson, in its order, after  *)
(* it deleted the lesson itself                                            *)
DeleteOrder(kind) ==
  IF kind = "adminDeleteLesson"
  THEN <<"lessonReports", "favorites", "comments">>
  ELSE <<"favorites", "lessonReports", "comments">>

DeleteLessonArrive(kind, id, ok) ==
  /\ IF kind = "adminDeleteLesson" /\ NotReady(dbReady)
     THEN /\ resp' = ContentResp(kind, 503, "DB not ready", None)
          /\ UNCHANGED <<reqs, lessonsCollection>>
     ELSE IF safeObjectId(id) = None
     THEN /\ resp' = ContentResp(kind, 400, "Invalid lesson id", None)
          /\ UNCHANGED <<reqs, lessonsCollection>>
     ELSE IF HandleUndefined
     THEN /\ resp' = ContentResp(kind, 500, "TypeError", None)
          /\ UNCHANGED <<reqs, lessonsCollection>>
     ELSE IF ~ok
     THEN /\ resp' = ContentResp(kind, 500, "store error", None)
          /\ UNCHANGED <<reqs, lessonsCollection>>
     ELSE /\ CanSuspend
          /\ LET i == FirstLesson(lessonsCollection, id)
             IN  lessonsCollection' =
                   IF i = 0 THEN lessonsCollection
                   ELSE RemoveAt(lessonsCollection, i)
          /\ Suspend([kind |-> kind, pc |-> 1, uid |-> None,
                      lessonId |-> id, flag |-> FALSE])
          /\ UNCHANGED resp
  /\ UNCHANGED <<entitlement, dbReady, conn, handles, favoritesCollection,
                 lessonReportsCollection, commentsCollection>>

(* the next deleteMany of the handler; after the last, { success: true } *)
DeleteLessonStep(rq) ==
  /\ rq \in Suspended
  /\ rq.kind \in {"deleteLesson", "adminDeleteLesson"}
  /\ LET which == DeleteOrder(rq.kind)[rq.pc]
     IN  /\ favoritesCollection' =
               IF which = "favorites"
               THEN DeleteMany(favoritesCollection, rq.lessonId)
               ELSE favoritesCollection
         /\ lessonReportsCollection' =
               IF which = "lessonReports"
               THEN DeleteMany(lessonReportsCollection, rq.lessonId)
               ELSE lessonReportsCollection
         /\ commentsCollection' =
               IF which = "comments"
               THEN DeleteMany(commentsCollection, rq.lessonId)
               ELSE commentsCollection
  /\ IF rq.pc < Len(DeleteOrder(rq.kind))
     THEN /\ Resume(rq, [rq EXCEPT !.pc = @ + 1])
          /\ UNCHANGED resp
     ELSE /\ Finish(rq)
          /\ resp' = ContentResp(rq.kind, 200, "success", TRUE)
  /\ UNCHANGED <<entitlement, dbReady, conn, handles, lessonsCollection>>

(* the store rejects the call a handler is suspended at: catch, 500 *)
ContentAwaitRejects(rq) ==
  /\ rq \in Suspended
  /\ rq.kind \in {"like", "favorite", "deleteLesson", "adminDeleteLesson"}
  /\ resp' = ContentResp(rq.kind, 500, "store error", None)
  /\ Finish(rq)
  /\ UNCHANGED <<entitlement, dbReady, conn, handles, content>>

NextContent ==
  \/ RunConnected
  \/ RunFailed
  \/ \E uid \in ContentUids \cup {None}, id \in LessonIds \cup {InvalidId},
        ok \in BOOLEAN : LikeArrive(uid, id, ok)
  \/ \E rq \in Suspended : LikeUpdate(rq)
  \/ \E rq \in Suspended : LikeRespond(rq)
  \/ \E uid \in ContentUids \cup {None}, l \in LessonIds, ok \in BOOLEAN :
        FavoriteArrive(uid, l, ok)
  \/ \E rq \in Suspended : FavoriteDelete(rq)
  \/ \E rq \in Suspended : FavoriteInsert(rq)
  \/ \E body \in CommentBodies, ok \in BOOLEAN : CommentsPost(body, ok)
  \/ \E body \in ReportBodies, ok \in BOOLEAN : LessonReportsPost(body, ok)
  \/ \E kind \in {"deleteLesson", "adminDeleteLesson"},
        id \in LessonIds \cup {InvalidId}, ok \in BOOLEAN :
        DeleteLessonArrive(kind, id, ok)
  \/ \E rq \in Suspended : DeleteLessonStep(rq)
  \/ \E rq \in Suspended : ContentAwaitRejects(rq)

SpecContent == Init /\ [][NextContent]_vars

(* a well-formed request reaches one of the handlers that use the store *)
ContentArrives ==
  \/ \E uid \in ContentUids, id \in LessonIds : LikeArrive(uid, id, TRUE)
  \/ \E uid \in ContentUids, l \in LessonIds : FavoriteArrive(uid, l, TRUE)
  \/ \E body \in CommentBodies :
       body.lessonId # None /\ CommentsPost(body, TRUE)
  \/ \E body \in ReportBodies :
       body.lessonId # None /\ LessonReportsPost(body, TRUE)
  \/ \E kind \in {"deleteLesson", "adminDeleteLesson"}, id \in LessonIds :
       DeleteLessonArrive(kind, id, TRUE)

(* C21: while dbReady is false, every handler that uses the store answers  *)
(* a request with 503, never with 500 or a success.                        *)
C21_AllHandlersGated ==
  [][ (~dbReady /\ ContentArrives) => resp'.status = 503 ]_vars

References(lessonId) ==
  {i \in 1..Len(favoritesCollection) :
     favoritesCollection[i].lessonId = lessonId}
  \cup {i \in 1..Len(lessonReportsCollection) :
          lessonReportsCollection[i].lessonId = lessonId}
  \cup {i \in 1..Len(commentsCollection) :
          commentsCollection[i].lessonId = lessonId}

(* C28: once no like toggle is between its read and its update, every      *)
(* lesson's likesCount equals the number of uids in likes and is not       *)
(* negative.                                                               *)
C28_LikesCountMatches ==
  NumLiking = 0 =>
    \A i \in 1..Len(lessonsCollection) :
      /\ lessonsCollection[i].likesCount =
           Cardinality(lessonsCollection[i].likes)
      /\ lessonsCollection[i].likesCount >= 0

(* C29: the favorites collection holds at most one document per            *)
(* (uid, lessonId) pair.                                                   *)
C29_OneFavoritePerPair ==
  \A uid \in ContentUids, l \in LessonIds :
    Cardinality({i \in 1..Len(favoritesCollection) :
                   /\ favoritesCollection[i].uid = uid
                   /\ favoritesCollection[i].lessonId = l}) <= 1

(* C30: when a lesson delete answers { success: true }, no favorite,       *)
(* report or comment that references the lesson is left.                   *)
C30_DeleteLeavesNothing ==
  [][ \A rq \in Suspended :
        ( /\ DeleteLessonStep(rq)
          /\ rq.pc = Len(DeleteOrder(rq.kind)) )
        => (References(rq.lessonId))' = {} ]_vars

=============================================================================
